---- MODULE Spec2Model ----
(***************************************************************************)
(* csvclean (src/main.go): a command-line utility that rewrites a          *)
(* delimited text file, wrapping every field in an encapsulation           *)
(* character.  The model has two processes, the main goroutine (option     *)
(* parsing, path derivation, the select on errChan / sigChan) and the run  *)
(* goroutine (openFiles, processFile, cleanupTempFile, the deferred        *)
(* close), plus the environment that delivers os.Interrupt.                *)
(*                                                                         *)
(* Strings are sequences of one-character strings, files are sequences of  *)
(* bytes with POSIX offset semantics.  "NUL" stands for a zero byte.       *)
(***************************************************************************)
EXTENDS Integers, Sequences, FiniteSets, TLC

\* ------------------------------------------------------------- bounds
\* Largest number of lines of an input file.
MaxLines == 2

\* ---------------------------------------------------- string helpers
Min(a, b) == IF a < b THEN a ELSE b

\* strings.Index(s, sub): the first index (1-based) at which sub occurs in
\* s, 0 when it does not occur.
Index(s, sub) ==
  LET hits == {i \in 1..(Len(s) - Len(sub) + 1) : SubSeq(s, i, i + Len(sub) - 1) = sub}
  IN  IF hits = {} THEN 0 ELSE CHOOSE i \in hits : \A j \in hits : i <= j

\* strings.LastIndex(s, c) for a one-character c.
LastIndex(s, c) ==
  LET hits == {i \in 1..Len(s) : s[i] = c}
  IN  IF hits = {} THEN 0 ELSE CHOOSE i \in hits : \A j \in hits : j <= i

\* s[from:] in Go terms, from 1-based.
Tail_(s, from) == SubSeq(s, from, Len(s))

\* strings.SplitN(s, sep, 2) for a one-character sep: at most two pieces.
SplitN2(s, sep) ==
  LET i == Index(s, <<sep>>)
  IN  IF i = 0 THEN <<s>> ELSE <<SubSeq(s, 1, i - 1), Tail_(s, i + 1)>>

\* strings.Replace(s, old, new, 1): the first occurrence only.
Replace1(s, old, new) ==
  LET i == Index(s, old)
  IN  IF i = 0 THEN s
      ELSE SubSeq(s, 1, i - 1) \o new \o Tail_(s, i + Len(old))

\* strings.Split(s, sep) for a one-character sep.
RECURSIVE Split(_, _)
Split(s, sep) ==
  LET i == Index(s, <<sep>>)
  IN  IF i = 0 THEN <<s>>
      ELSE <<SubSeq(s, 1, i - 1)>> \o Split(Tail_(s, i + 1), sep)

\* strings.Join(elems, sep).
RECURSIVE Join(_, _)
Join(elems, sep) ==
  IF Len(elems) = 0 THEN <<>>
  ELSE IF Len(elems) = 1 THEN elems[1]
  ELSE elems[1] \o sep \o Join(Tail(elems), sep)

\* ------------------------------------------------------ path helpers
\* s without its trailing slashes.
RECURSIVE StripTrailingSlashes(_)
StripTrailingSlashes(s) ==
  IF Len(s) > 0 /\ s[Len(s)] = "/" THEN StripTrailingSlashes(SubSeq(s, 1, Len(s) - 1))
  ELSE s

\* filepath.Base: the last element of the path; "." for the empty path, "/"
\* for a path of slashes only.
Base(p) ==
  IF p = <<>> THEN <<".">>
  ELSE LET q == StripTrailingSlashes(p)
           r == Tail_(q, LastIndex(q, "/") + 1)
       IN  IF r = <<>> THEN <<"/">> ELSE r

\* path.Clean's element pass: "" and "." elements are dropped, ".." removes
\* the element before it (or is dropped at the root, kept otherwise).
RECURSIVE CleanElems(_, _, _)
CleanElems(elems, acc, rooted) ==
  IF elems = <<>> THEN acc
  ELSE LET e == Head(elems)
           rest == Tail(elems)
       IN  IF e = <<>> \/ e = <<".">> THEN CleanElems(rest, acc, rooted)
           ELSE IF e = <<".", ".">> THEN
                  IF Len(acc) > 0 /\ acc[Len(acc)] # <<".", ".">>
                    THEN CleanElems(rest, SubSeq(acc, 1, Len(acc) - 1), rooted)
                  ELSE IF rooted THEN CleanElems(rest, acc, rooted)
                  ELSE CleanElems(rest, Append(acc, e), rooted)
           ELSE CleanElems(rest, Append(acc, e), rooted)

\* path.Clean.
Clean(p) ==
  IF p = <<>> THEN <<".">>
  ELSE LET rooted == p[1] = "/"
           body == Join(CleanElems(Split(p, "/"), <<>>, rooted), <<"/">>)
       IN  IF rooted THEN <<"/">> \o body
           ELSE IF body = <<>> THEN <<".">> ELSE body

\* path.Join of a single element: "" stays "", anything else is cleaned.
PathJoin1(p) == IF p = <<>> THEN <<>> ELSE Clean(p)

Panic == <<"PANIC">>

\* main.go 267-275: the derived output path.  bits[1] is indexed without a
\* length check, so a basename without "." panics (index out of range).
DeriveOutputPath(inPath, basename) ==
  LET bits == SplitN2(basename, ".")
  IN  IF Len(bits) < 2 THEN Panic
      ELSE PathJoin1(Replace1(inPath, basename,
                              bits[1] \o <<"_", "c", "l", "e", "a", "n", ".">> \o bits[2]))

\* ------------------------------------------------- delimiter parsing
DelimError == <<"ERR">>

\* main.go 67-77: one rune is used as is; two runes whose second is 't'
\* give a tab; anything else is an error.
parseDelimiter(in) ==
  IF Len(in) = 1 THEN in
  ELSE IF Len(in) = 2 /\ in[2] = "t" THEN <<"\t">>
  ELSE DelimError

\* --------------------------------------------------------- csv.Reader
\* csv.Reader rejects these delimiters (and a comment equal to the comma).
ValidDelim(c) == c \notin {"\"", "\r", "\n", "NUL"}

\* bufio.Reader under csv.Reader: the next line of the input, read through
\* a 4096-byte buffer that is refilled from the file at offset off when it
\* holds no complete line.  A last line without "\n" is returned at EOF.
RECURSIVE ReadLine(_, _, _)
ReadLine(buf, off, data) ==
  LET i == Index(buf, <<"\n">>)
  IN  IF i > 0
        THEN [kind |-> "line", line |-> SubSeq(buf, 1, i - 1), buf |-> Tail_(buf, i + 1), off |-> off]
      ELSE LET n == Min(4096 - Len(buf), Len(data) - off)
           IN  IF n <= 0
                 THEN IF buf = <<>>
                        THEN [kind |-> "eof", line |-> <<>>, buf |-> buf, off |-> off]
                      ELSE [kind |-> "line", line |-> buf, buf |-> <<>>, off |-> off]
               ELSE ReadLine(buf \o SubSeq(data, off + 1, off + n), off + n, data)

\* csv.Reader.readRecord for input without quote characters: comment lines
\* and empty lines are skipped, the line is split at the comma.
RECURSIVE ReadRecord(_, _, _, _, _)
ReadRecord(buf, off, data, comma, comment) ==
  LET r == ReadLine(buf, off, data)
  IN  IF r.kind = "eof" THEN [kind |-> "eof", fields |-> <<>>, buf |-> r.buf, off |-> r.off]
      ELSE IF comment # "" /\ r.line # <<>> /\ r.line[1] = comment
             THEN ReadRecord(r.buf, r.off, data, comma, comment)
      ELSE IF r.line = <<>> THEN ReadRecord(r.buf, r.off, data, comma, comment)
      ELSE [kind |-> "record", fields |-> Split(r.line, comma), buf |-> r.buf, off |-> r.off]

\* ------------------------------------------------------- transformer
\* main.go 162: fmt.Sprintf("%s%s%s", *encapsulatePtr, value, *encapsulatePtr).
Encapsulate(value, encap) == encap \o value \o encap

\* Mutant: the header exemption is not limited to the first record.
UpdatedLine_HeaderEveryRecord(inputLine_, count, header, encap) ==
  IF count >= 1 /\ header THEN inputLine_
  ELSE [i \in 1..Len(inputLine_) |-> Encapsulate(inputLine_[i], encap)]

\* main.go 157-164: the header record (the first record read, with -h) is
\* copied, every other record has each field encapsulated.
UpdatedLine(inputLine_, count, header, encap) ==
  IF count = 1 /\ header THEN inputLine_
  ELSE [i \in 1..Len(inputLine_) |-> Encapsulate(inputLine_[i], encap)]

\* main.go 168: fmt.Fprintln(outFile, strings.Join(updatedLine, delimiter)).
OutputBytes(updatedLine, delim) == Join(updatedLine, delim) \o <<"\n">>

\* ------------------------------------------------------------- files
\* write(2) of bytes at offset off (0-based): a gap between the end of the
\* file and off reads as zero bytes; nothing is written for no bytes.
WriteAt(data, off, bytes) ==
  LET padded == IF off > Len(data)
                  THEN data \o [i \in 1..(off - Len(data)) |-> "NUL"]
                ELSE data
  IN  IF bytes = <<>> THEN data
      ELSE SubSeq(padded, 1, off) \o bytes \o Tail_(padded, off + Len(bytes) + 1)

\* How many bytes a failed write of n bytes may have written: any proper
\* prefix; the model takes the shortest and the longest.
PartialLens(n) == {k \in {0, n - 1} : 0 <= k /\ k < n}

NilFile == [st |-> "nil", off |-> 0]
OpenedFile == [st |-> "open", off |-> 0]

\* ------------------------------------------------------------ inputs
PlainPath == <<"a", ".", "c">>
NoDotPath == <<"a">>
OutPath == <<"o">>

\* Input paths: plain, inside a directory, without ".", and one whose
\* directory part contains the basename.
InPaths == {PlainPath, <<"d", "/", "a", ".", "c">>, NoDotPath, <<".", "a", "/", ".", "a">>}

\* fs.Args(): zero to three positional arguments.
ArgLists ==
  {<<>>} \cup {<<p>> : p \in InPaths} \cup {<<PlainPath, OutPath>>, <<NoDotPath, OutPath>>}
    \cup {<<PlainPath, OutPath, OutPath>>}

\* Values of -d.
DelimInputs ==
  {<<>>, <<",">>, <<"\t">>, <<"\\", "t">>, <<"a", "t">>, <<",", ",">>, <<"\\", "t", "t">>}

\* Values of -e: the default and another quote.
DefaultEncapsulate == <<"\"">>
EncapsulateInputs == {DefaultEncapsulate, <<"'">>}

\* Values of -c.
CommentInputs == {<<>>, <<"#">>, <<"#", "#">>}

\* fs.Parse: parsed, -help / -h<unknown> style help request, or any other
\* parse error (an undefined flag, a bad value).
ParseOutcomes == {"ok", "help", "err"}

CommandLines ==
  [parse : ParseOutcomes, args : ArgLists, d : DelimInputs, c : CommentInputs,
   e : EncapsulateInputs, h : BOOLEAN, i : BOOLEAN, t : BOOLEAN]

\* Lines an input file is made of (no quote characters).
LineChoices == {<<>>, <<"a">>, <<"a", ",", "b">>}

\* The bytes of a file of the given lines, each ended by "\n".
RECURSIVE FileOf(_)
FileOf(lines) ==
  IF lines = <<>> THEN <<>> ELSE lines[1] \o <<"\n">> \o FileOf(Tail(lines))

InputFiles ==
  {FileOf(ls) : ls \in UNION {[1..n -> LineChoices] : n \in 0..MaxLines}}

\* A file with a comment line, two records and both delimiters.
SampleFile ==
  FileOf(<< <<"#", "x">>, <<"a", ",", "b", "\t", "c">>, <<"d", ",", "e", "\t", "f">> >>)

\* What the output path may hold before the run: nothing, or an older and
\* longer output.
StaleOutputs == {<<>>, <<"z", "z", "z", "z", "z", "z", "z", "z", "z", "z", "z", "z", "z", "z", "z", "z", "z", "\n">>}

\* The command lines and files explored: every combination of the run
\* options over every input file with a well-formed command line, and every
\* command line over the sample file.
Scenario(cl, f, stale) ==
  \/ /\ cl.parse = "ok" /\ cl.args = <<PlainPath>> /\ cl.d = <<",">> /\ cl.c = <<>>
     /\ f \in InputFiles
     /\ (cl.i => stale = <<>> /\ ~cl.t)
     /\ (cl.e # DefaultEncapsulate => stale = <<>> /\ ~cl.t)
  \/ /\ f = SampleFile /\ stale = <<>> /\ ~cl.t /\ cl.e = DefaultEncapsulate

\* Input files of n one-field records.
UniformFiles == {FileOf([k \in 1..n |-> <<"a">>]) : n \in 0..MaxLines}

\* The smaller set explored under fairness: the run options over the
\* uniform files with a well-formed command line, and the -d and -c values,
\* parse outcomes and argument counts over the empty file.
FairScenario(cl, f, stale) ==
  /\ stale = <<>> /\ ~cl.t /\ cl.e = DefaultEncapsulate
  /\ \/ /\ cl.parse = "ok" /\ cl.args = <<PlainPath>> /\ cl.d = <<",">> /\ cl.c = <<>>
        /\ f \in UniformFiles
     \/ /\ f = <<>> /\ ~cl.h /\ ~cl.i
        /\ cl.args \in {<<>>, <<PlainPath>>} /\ cl.c \in {<<>>, <<"#", "#">>}

\* ------------------------------------------------------------- state
VARIABLES
  osArgs,            \* the command line (input)
  args,              \* fs.Args()
  rawDelimiterPtr, commentPtr, encapsulatePtr, headerPtr, inPlacePtr, truncatePtr,
  inputFilepath, inputFileBasename, outputFilepath, delimiter,
  linesProcessed,
  mpc,               \* main goroutine: position
  exitCode,          \* os.Exit status, 2 for a panic, -1 while running
  mainErr,           \* main's err after the receive from errChan
  rpc,               \* run goroutine: position
  rerr,              \* run's err
  deferred,          \* run's deferred close is registered
  inFile, outFile,   \* the two *os.File: state and offset
  rbuf,              \* csv.Reader: buffered, unparsed bytes
  fieldsPerRecord,   \* csv.Reader.FieldsPerRecord
  inputLine,         \* processFile's inputLine
  fsIn, fsOut, fsTmp,\* file contents: input path, output path, temp file
  stopClosed,        \* stopChan is closed
  errChan,           \* buffered channel, capacity 1
  sigChan,           \* buffered channel, capacity 1: signals queued
  origIn,            \* history: the input file before the run
  staleOut,          \* history: the output path's content before the run
  reported,          \* history: the count logged on interrupt, -1 if none
  sent, received, closes, \* history: sends / receives on errChan, closes of stopChan
  written,           \* history: lines written by processFile
  writtenAfterClose, \* history: of these, lines written after close(stopChan)
  stoppedAt          \* history: how processFile returned: "", "eof", "stop", "error"

flagVars == <<rawDelimiterPtr, commentPtr, encapsulatePtr, headerPtr, inPlacePtr, truncatePtr>>
cfgVars == <<args, inputFilepath, inputFileBasename, outputFilepath, delimiter>>
fileVars == <<inFile, outFile, fsIn, fsOut, fsTmp>>
readerVars == <<rbuf, fieldsPerRecord, inputLine>>
chanVars == <<stopClosed, errChan, sigChan>>
histVars == <<origIn, staleOut, reported, sent, received, closes, written, writtenAfterClose, stoppedAt>>
mainVars == <<mpc, exitCode, mainErr>>
runVars == <<rpc, rerr, deferred>>

vars == <<osArgs, flagVars, cfgVars, linesProcessed, mainVars, runVars, fileVars,
          readerVars, chanVars, histVars>>

\* main.go 40-58: the package variables at their declared values, before
\* the process is given its command line.
Init ==
  /\ osArgs = [parse |-> "ok", args |-> <<>>, d |-> <<",">>, c |-> <<>>,
               e |-> DefaultEncapsulate, h |-> FALSE, i |-> FALSE, t |-> FALSE]
  /\ args = <<>>
  /\ rawDelimiterPtr = <<",">> /\ commentPtr = <<>> /\ encapsulatePtr = DefaultEncapsulate
  /\ headerPtr = FALSE /\ inPlacePtr = FALSE /\ truncatePtr = FALSE
  /\ inputFilepath = <<>> /\ inputFileBasename = <<>> /\ outputFilepath = <<>>
  /\ delimiter = <<>>
  /\ linesProcessed = 0
  /\ mpc = "start" /\ exitCode = -1 /\ mainErr = "none"
  /\ rpc = "idle" /\ rerr = "nil" /\ deferred = FALSE
  /\ inFile = NilFile /\ outFile = NilFile
  /\ rbuf = <<>> /\ fieldsPerRecord = 0 /\ inputLine = <<>>
  /\ fsIn = <<>> /\ fsOut = <<>> /\ fsTmp = <<>>
  /\ stopClosed = FALSE /\ errChan = <<>> /\ sigChan = 0
  /\ origIn = <<>> /\ staleOut = <<>> /\ reported = -1
  /\ sent = 0 /\ received = 0 /\ closes = 0
  /\ written = 0 /\ writtenAfterClose = 0 /\ stoppedAt = ""

\* The environment starts the process: a command line, and the files the
\* input and output paths name, one of the given scenarios.
StartFrom(scenarios) ==
  /\ mpc = "start"
  /\ \E cl \in CommandLines, f \in InputFiles \cup {SampleFile}, stale \in StaleOutputs :
       /\ <<cl, f, stale>> \in scenarios
       /\ osArgs' = cl
       /\ fsIn' = f /\ origIn' = f
       /\ fsOut' = stale /\ staleOut' = stale
  /\ mpc' = "parse"
  /\ UNCHANGED <<flagVars, cfgVars, linesProcessed, exitCode, mainErr, runVars, inFile,
                 outFile, fsTmp, readerVars, chanVars, reported, sent, received, closes,
                 written, writtenAfterClose, stoppedAt>>

Start ==
  StartFrom({sc \in CommandLines \X (InputFiles \cup {SampleFile}) \X StaleOutputs :
               Scenario(sc[1], sc[2], sc[3])})

StartFair ==
  StartFrom({sc \in CommandLines \X (InputFiles \cup {SampleFile}) \X StaleOutputs :
               FairScenario(sc[1], sc[2], sc[3])})

\* os.Exit(code): the process ends, whatever the run goroutine is doing.
Exit(code) == mpc' = "exited" /\ exitCode' = code

\* --------------------------------------------------- main goroutine
\* main.go 233-237: fs.Parse.  A help request exits 0; any other parse
\* error is dropped and main goes on with what was parsed.
MainParse ==
  /\ mpc = "parse"
  /\ rawDelimiterPtr' = osArgs.d /\ commentPtr' = osArgs.c /\ encapsulatePtr' = osArgs.e
  /\ headerPtr' = osArgs.h /\ inPlacePtr' = osArgs.i /\ truncatePtr' = osArgs.t
  /\ IF osArgs.parse = "help"
       THEN Exit(0) /\ mainErr' = mainErr
     ELSE mpc' = "args" /\ UNCHANGED <<exitCode, mainErr>>
  /\ UNCHANGED <<osArgs, cfgVars, linesProcessed, runVars, fileVars, readerVars, chanVars, histVars>>

\* main.go 239-249: one or two positional arguments, else usage and exit 1.
MainArgs ==
  /\ mpc = "args"
  /\ args' = osArgs.args
  /\ IF Len(osArgs.args) = 1
       THEN /\ inputFilepath' = osArgs.args[1]
            /\ mpc' = "delimiter"
            /\ UNCHANGED <<outputFilepath, exitCode>>
     ELSE IF Len(osArgs.args) = 2
       THEN /\ inputFilepath' = osArgs.args[1] /\ outputFilepath' = osArgs.args[2]
            /\ mpc' = "delimiter"
            /\ UNCHANGED exitCode
     ELSE Exit(1) /\ UNCHANGED <<inputFilepath, outputFilepath>>
  /\ UNCHANGED <<osArgs, flagVars, inputFileBasename, delimiter, linesProcessed, mainErr,
                 runVars, fileVars, readerVars, chanVars, histVars>>

\* main.go 251-254: the delimiter is resolved, an error exits 1.
MainDelimiter ==
  /\ mpc = "delimiter"
  /\ IF parseDelimiter(rawDelimiterPtr) = DelimError
       THEN Exit(1) /\ delimiter' = <<>>
     ELSE delimiter' = parseDelimiter(rawDelimiterPtr) /\ mpc' = "comment" /\ UNCHANGED exitCode
  /\ UNCHANGED <<osArgs, flagVars, args, inputFilepath, inputFileBasename, outputFilepath,
                 linesProcessed, mainErr, runVars, fileVars, readerVars, chanVars, histVars>>

\* main.go 255-260: a comment marker of more than one rune exits 1.
MainComment ==
  /\ mpc = "comment"
  /\ IF Len(commentPtr) > 1 THEN Exit(1) ELSE mpc' = "derive" /\ UNCHANGED exitCode
  /\ UNCHANGED <<osArgs, flagVars, cfgVars, linesProcessed, mainErr, runVars, fileVars,
                 readerVars, chanVars, histVars>>

\* main.go 264-276: the basename, and the derived output path when none
\* was given and -i is off.  The index panic ends the process with status 2.
MainDerive ==
  /\ mpc = "derive"
  /\ inputFileBasename' = Base(inputFilepath)
  /\ IF outputFilepath = <<>> /\ ~inPlacePtr
       THEN LET out == DeriveOutputPath(inputFilepath, Base(inputFilepath))
            IN  IF out = Panic
                  THEN Exit(2) /\ UNCHANGED outputFilepath
                ELSE outputFilepath' = out /\ mpc' = "spawn" /\ UNCHANGED exitCode
     ELSE mpc' = "spawn" /\ UNCHANGED <<outputFilepath, exitCode>>
  /\ UNCHANGED <<osArgs, flagVars, args, inputFilepath, delimiter, linesProcessed, mainErr,
                 runVars, fileVars, readerVars, chanVars, histVars>>

\* main.go 278-284: the channels are made, SIGINT is routed to sigChan and
\* the run goroutine is started.
MainSpawn ==
  /\ mpc = "spawn"
  /\ mpc' = "select"
  /\ rpc' = "openIn"
  /\ UNCHANGED <<osArgs, flagVars, cfgVars, linesProcessed, exitCode, mainErr, rerr, deferred,
                 fileVars, readerVars, chanVars, histVars>>

\* main.go 287-293: the select receives the run's result and exits.
MainSelectErr ==
  /\ mpc = "select"
  /\ Len(errChan) > 0
  /\ mainErr' = Head(errChan)
  /\ errChan' = Tail(errChan)
  /\ received' = received + 1
  /\ Exit(IF Head(errChan) # "nil" THEN 1 ELSE 0)
  /\ UNCHANGED <<osArgs, flagVars, cfgVars, linesProcessed, runVars, fileVars, readerVars,
                 stopClosed, sigChan, origIn, staleOut, reported, sent, closes, written,
                 writtenAfterClose, stoppedAt>>

\* main.go 294-295: the select receives the signal and logs the count of
\* lines processed, read atomically at this moment.
MainSelectSig ==
  /\ mpc = "select"
  /\ sigChan > 0
  /\ sigChan' = sigChan - 1
  /\ reported' = linesProcessed
  /\ mpc' = "close"
  /\ UNCHANGED <<osArgs, flagVars, cfgVars, linesProcessed, exitCode, mainErr, runVars,
                 fileVars, readerVars, stopClosed, errChan, origIn, staleOut, sent, received,
                 closes, written, writtenAfterClose, stoppedAt>>

\* main.go 296: close(stopChan).
MainClose ==
  /\ mpc = "close"
  /\ stopClosed' = TRUE
  /\ closes' = closes + 1
  /\ mpc' = "wait"
  /\ UNCHANGED <<osArgs, flagVars, cfgVars, linesProcessed, exitCode, mainErr, runVars,
                 fileVars, readerVars, errChan, sigChan, origIn, staleOut, reported, sent,
                 received, written, writtenAfterClose, stoppedAt>>

\* main.go 297-303: the run's result is awaited, then exit 1 or 0.
MainWait ==
  /\ mpc = "wait"
  /\ Len(errChan) > 0
  /\ mainErr' = Head(errChan)
  /\ errChan' = Tail(errChan)
  /\ received' = received + 1
  /\ Exit(IF Head(errChan) # "nil" THEN 1 ELSE 0)
  /\ UNCHANGED <<osArgs, flagVars, cfgVars, linesProcessed, runVars, fileVars, readerVars,
                 stopClosed, sigChan, origIn, staleOut, reported, sent, closes, written,
                 writtenAfterClose, stoppedAt>>

\* The environment: SIGINT once signal.Notify is in place (main.go 282).  A
\* signal that finds sigChan full is dropped.
Interrupt ==
  /\ mpc \in {"select", "close", "wait"}
  /\ sigChan = 0
  /\ sigChan' = 1
  /\ UNCHANGED <<osArgs, flagVars, cfgVars, linesProcessed, mainVars, runVars, fileVars,
                 readerVars, stopClosed, errChan, histVars>>

\* ---------------------------------------------------- run goroutine
Alive == mpc # "exited"

\* What run does once processFile has returned nil (main.go 214-221): the
\* finalizer in in-place mode, else the nil result.
AfterProcessFile == IF inPlacePtr THEN "seek" ELSE "send"

\* main.go 101-103 (and 195-198): the input file is opened, read-write in
\* in-place mode.  On failure openFiles returns nil, nil, err and run sends
\* the error.
RunOpenIn ==
  /\ Alive /\ rpc = "openIn"
  /\ \/ /\ inFile' = OpenedFile
        /\ rpc' = "openOut"
        /\ UNCHANGED rerr
     \/ /\ rerr' = "open input"
        /\ rpc' = "send"
        /\ UNCHANGED inFile
  /\ UNCHANGED <<osArgs, flagVars, cfgVars, linesProcessed, mainVars, deferred, outFile,
                 fsIn, fsOut, fsTmp, readerVars, chanVars, histVars>>

\* main.go 105-118 (and 195-207): the temp file is created (in-place) or the
\* output path is opened with O_CREATE|O_WRONLY, plus O_TRUNC with -t.  On
\* failure openFiles returns the open inFile with the error, and run sends
\* the error and returns before its close is deferred.
RunOpenOut ==
  /\ Alive /\ rpc = "openOut"
  /\ \/ /\ outFile' = OpenedFile
        /\ IF inPlacePtr
             THEN fsTmp' = <<>> /\ UNCHANGED fsOut
           ELSE fsOut' = (IF truncatePtr THEN <<>> ELSE fsOut) /\ UNCHANGED fsTmp
        /\ deferred' = TRUE
        /\ rpc' = "read"
        /\ UNCHANGED rerr
     \/ /\ rerr' = (IF inPlacePtr THEN "open temp" ELSE "open output")
        /\ rpc' = "send"
        /\ UNCHANGED <<outFile, fsOut, fsTmp, deferred>>
  /\ UNCHANGED <<osArgs, flagVars, cfgVars, linesProcessed, mainVars, inFile, fsIn,
                 readerVars, chanVars, histVars>>

\* reader.Comment as set at main.go 128-130: "" when -c is not given.
ReaderComment == IF Len(commentPtr) > 0 THEN commentPtr[1] ELSE ""

\* main.go 138-143: reader.Read() gives a record, io.EOF (processFile
\* returns nil) or an error: an invalid delimiter, a record whose field
\* count differs from the first record's, or a failed read of the file.
RunRead ==
  /\ Alive /\ rpc = "read"
  /\ LET r == ReadRecord(rbuf, inFile.off, fsIn, delimiter[1], ReaderComment)
         bad == ~ValidDelim(delimiter[1]) \/ delimiter[1] = ReaderComment
     IN  \/ /\ ~bad /\ r.kind = "record"
            /\ fieldsPerRecord \in {0, Len(r.fields)}
            /\ rbuf' = r.buf /\ inFile' = [inFile EXCEPT !.off = r.off]
            /\ fieldsPerRecord' = Len(r.fields)
            /\ inputLine' = r.fields
            /\ rpc' = "incr"
            /\ UNCHANGED <<rerr, stoppedAt>>
         \/ /\ ~bad /\ r.kind = "record"
            /\ fieldsPerRecord \notin {0, Len(r.fields)}
            /\ rbuf' = r.buf /\ inFile' = [inFile EXCEPT !.off = r.off]
            /\ rerr' = "read" /\ stoppedAt' = "error"
            /\ rpc' = "send"
            /\ UNCHANGED <<fieldsPerRecord, inputLine>>
         \/ /\ ~bad /\ r.kind = "eof"
            /\ rbuf' = r.buf /\ inFile' = [inFile EXCEPT !.off = r.off]
            /\ stoppedAt' = "eof"
            /\ rpc' = AfterProcessFile
            /\ UNCHANGED <<rerr, fieldsPerRecord, inputLine>>
         \/ /\ rerr' = "read" /\ stoppedAt' = "error"
            /\ rpc' = "send"
            /\ UNCHANGED <<rbuf, inFile, fieldsPerRecord, inputLine>>
  /\ UNCHANGED <<osArgs, flagVars, cfgVars, linesProcessed, mainVars, deferred, outFile,
                 fsIn, fsOut, fsTmp, chanVars, origIn, staleOut, reported, sent, received,
                 closes, written, writtenAfterClose>>

\* main.go 146: atomic.AddUint64(&linesProcessed, 1).
RunIncr ==
  /\ Alive /\ rpc = "incr"
  /\ linesProcessed' = linesProcessed + 1
  /\ rpc' = "check"
  /\ UNCHANGED <<osArgs, flagVars, cfgVars, mainVars, rerr, deferred, fileVars, readerVars,
                 chanVars, histVars>>

\* Mutant: the stop check always takes its default branch.
RunCheck_IgnoresStop ==
  /\ Alive /\ rpc = "check"
  /\ rpc' = "write"
  /\ UNCHANGED <<osArgs, flagVars, cfgVars, linesProcessed, mainVars, rerr, deferred,
                 fileVars, readerVars, chanVars, histVars>>

\* Mutant: a stopped run returns without sending its result.
RunCheck_StopSendsNothing ==
  /\ Alive /\ rpc = "check"
  /\ IF stopClosed
       THEN rpc' = "close" /\ stoppedAt' = "stop"
     ELSE rpc' = "write" /\ UNCHANGED stoppedAt
  /\ UNCHANGED <<osArgs, flagVars, cfgVars, linesProcessed, mainVars, rerr, deferred,
                 fileVars, readerVars, chanVars, origIn, staleOut, reported, sent, received,
                 closes, written, writtenAfterClose>>

\* main.go 149-153: the non-blocking receive from stopChan; a closed
\* channel is always ready, so processFile returns nil.
RunCheck ==
  /\ Alive /\ rpc = "check"
  /\ IF stopClosed
       THEN rpc' = AfterProcessFile /\ stoppedAt' = "stop"
     ELSE rpc' = "write" /\ UNCHANGED stoppedAt
  /\ UNCHANGED <<osArgs, flagVars, cfgVars, linesProcessed, mainVars, rerr, deferred,
                 fileVars, readerVars, chanVars, origIn, staleOut, reported, sent, received,
                 closes, written, writtenAfterClose>>

\* The file the output handle writes to.
OutData == IF inPlacePtr THEN fsTmp ELSE fsOut

\* main.go 157-170: the line is built and written with one Fprintln; a
\* failed write may have written a proper prefix of it.
RunWrite ==
  /\ Alive /\ rpc = "write"
  /\ LET bytes == OutputBytes(UpdatedLine(inputLine, linesProcessed, headerPtr, encapsulatePtr), delimiter)
     IN  \/ /\ IF inPlacePtr
                 THEN fsTmp' = WriteAt(fsTmp, outFile.off, bytes) /\ UNCHANGED fsOut
               ELSE fsOut' = WriteAt(fsOut, outFile.off, bytes) /\ UNCHANGED fsTmp
            /\ outFile' = [outFile EXCEPT !.off = @ + Len(bytes)]
            /\ written' = written + 1
            /\ writtenAfterClose' = writtenAfterClose + (IF stopClosed THEN 1 ELSE 0)
            /\ rpc' = "read"
            /\ UNCHANGED <<rerr, stoppedAt>>
         \/ \E k \in PartialLens(Len(bytes)) :
              /\ IF inPlacePtr
                   THEN fsTmp' = WriteAt(fsTmp, outFile.off, SubSeq(bytes, 1, k)) /\ UNCHANGED fsOut
                 ELSE fsOut' = WriteAt(fsOut, outFile.off, SubSeq(bytes, 1, k)) /\ UNCHANGED fsTmp
              /\ outFile' = [outFile EXCEPT !.off = @ + k]
              /\ rerr' = "write" /\ stoppedAt' = "error"
              /\ rpc' = "send"
              /\ UNCHANGED <<written, writtenAfterClose>>
  /\ UNCHANGED <<osArgs, flagVars, cfgVars, linesProcessed, mainVars, deferred, inFile, fsIn,
                 readerVars, chanVars, origIn, staleOut, reported, sent, received, closes>>

\* main.go 176-178: outFile.Seek(0, 0) rewinds the temp file.
RunSeek ==
  /\ Alive /\ rpc = "seek"
  /\ \/ outFile' = [outFile EXCEPT !.off = 0] /\ rpc' = "truncate" /\ UNCHANGED rerr
     \/ rerr' = "seek" /\ rpc' = "send" /\ UNCHANGED outFile
  /\ UNCHANGED <<osArgs, flagVars, cfgVars, linesProcessed, mainVars, deferred, inFile,
                 fsIn, fsOut, fsTmp, readerVars, chanVars, histVars>>

\* main.go 179-181: inFile.Truncate(0) sets the file's length to zero; the
\* handle's offset stays where reading left it.
RunTruncate ==
  /\ Alive /\ rpc = "truncate"
  /\ \/ fsIn' = <<>> /\ rpc' = "copy" /\ UNCHANGED rerr
     \/ rerr' = "truncate" /\ rpc' = "send" /\ UNCHANGED fsIn
  /\ UNCHANGED <<osArgs, flagVars, cfgVars, linesProcessed, mainVars, deferred, inFile,
                 outFile, fsOut, fsTmp, readerVars, chanVars, histVars>>

\* main.go 182-185: io.Copy(inFile, outFile) reads the temp file from its
\* offset to its end and writes the bytes through inFile at inFile's
\* offset; a failed copy may have written a proper prefix.
RunCopy ==
  /\ Alive /\ rpc = "copy"
  /\ LET bytes == Tail_(fsTmp, outFile.off + 1)
     IN  \/ /\ fsIn' = WriteAt(fsIn, inFile.off, bytes)
            /\ inFile' = [inFile EXCEPT !.off = @ + Len(bytes)]
            /\ outFile' = [outFile EXCEPT !.off = @ + Len(bytes)]
            /\ rerr' = "nil"
            /\ rpc' = "send"
         \/ \E k \in PartialLens(Len(bytes)) :
              /\ fsIn' = WriteAt(fsIn, inFile.off, SubSeq(bytes, 1, k))
              /\ inFile' = [inFile EXCEPT !.off = @ + k]
              /\ outFile' = [outFile EXCEPT !.off = @ + k]
              /\ rerr' = "copy"
              /\ rpc' = "send"
         \/ /\ bytes = <<>>
            /\ rerr' = "copy" /\ rpc' = "send"
            /\ UNCHANGED <<fsIn, inFile, outFile>>
  /\ UNCHANGED <<osArgs, flagVars, cfgVars, linesProcessed, mainVars, deferred, fsOut, fsTmp,
                 readerVars, chanVars, histVars>>

\* main.go 196, 210, 216, 221: errChan <- err, then return: the deferred
\* close runs if it was registered.
RunSend ==
  /\ Alive /\ rpc = "send"
  /\ Len(errChan) < 1
  /\ errChan' = Append(errChan, rerr)
  /\ sent' = sent + 1
  /\ rpc' = IF deferred THEN "close" ELSE "done"
  /\ UNCHANGED <<osArgs, flagVars, cfgVars, linesProcessed, mainVars, rerr, deferred,
                 fileVars, readerVars, stopClosed, sigChan, origIn, staleOut, reported,
                 received, closes, written, writtenAfterClose, stoppedAt>>

\* main.go 200-207: the deferred function closes both files.
RunClose ==
  /\ Alive /\ rpc = "close"
  /\ inFile' = [inFile EXCEPT !.st = IF @ = "open" THEN "closed" ELSE @]
  /\ outFile' = [outFile EXCEPT !.st = IF @ = "open" THEN "closed" ELSE @]
  /\ rpc' = "done"
  /\ UNCHANGED <<osArgs, flagVars, cfgVars, linesProcessed, mainVars, rerr, deferred,
                 fsIn, fsOut, fsTmp, readerVars, chanVars, histVars>>

\* main.go 79-119.
openFiles == RunOpenIn \/ RunOpenOut

\* main.go 121-172.
processFile == RunRead \/ RunIncr \/ RunCheck \/ RunWrite

\* main.go 174-186.
cleanupTempFile == RunSeek \/ RunTruncate \/ RunCopy

\* main.go 188-222.
run == openFiles \/ processFile \/ cleanupTempFile \/ RunSend \/ RunClose

\* main.go 224-305.
main ==
  \/ MainParse \/ MainArgs \/ MainDelimiter \/ MainComment \/ MainDerive \/ MainSpawn
  \/ MainSelectErr \/ MainSelectSig \/ MainClose \/ MainWait

Next == Start \/ main \/ run \/ Interrupt

Spec == Init /\ [][Next]_vars

\* The Go scheduler runs every runnable goroutine, and file I/O returns:
\* both goroutines keep taking steps.  Signals are not owed.
NextFair == StartFair \/ main \/ run \/ Interrupt

FairSpec == Init /\ [][NextFair]_vars /\ WF_vars(main) /\ WF_vars(run)

\* ============================================================ claims
Exited == mpc = "exited"

\* The run goroutine's result reached main and was nil.
RunSucceeded == Exited /\ received = 1 /\ mainErr = "nil"

\* The records of an input file, as csv.Reader delivers them one by one.
RECURSIVE RecordsFrom(_, _, _, _, _)
RecordsFrom(buf, off, data, comma, comment) ==
  LET r == ReadRecord(buf, off, data, comma, comment)
  IN  IF r.kind = "eof" THEN <<>>
      ELSE <<r.fields>> \o RecordsFrom(r.buf, r.off, data, comma, comment)

InputRecords == RecordsFrom(<<>>, 0, origIn, delimiter[1], ReaderComment)

\* The line the specification asks for record i: the header record joined
\* by the delimiter, any other record with every field between quotes.
ExpectedLine(rec, i) ==
  IF headerPtr /\ i = 1 THEN Join(rec, delimiter) \o <<"\n">>
  ELSE Join([j \in 1..Len(rec) |-> osArgs.e \o rec[j] \o osArgs.e], delimiter) \o <<"\n">>

\* The expected lines of the first n records, in input order.
RECURSIVE ExpectedOutput(_, _)
ExpectedOutput(recs, n) ==
  IF n = 0 THEN <<>>
  ELSE ExpectedOutput(recs, n - 1) \o ExpectedLine(recs[n], n)

\* The bytes processFile has written through the output handle.
OutputWritten == IF inPlacePtr THEN fsTmp ELSE SubSeq(fsOut, 1, Min(outFile.off, Len(fsOut)))

NumLines(bytes) == Cardinality({k \in 1..Len(bytes) : bytes[k] = "\n"})

\* The output path held nothing before the run, or was truncated by -t.
FreshOutput == staleOut = <<>> \/ truncatePtr

\* C1: in in-place mode, after a successful run, the original file holds
\* exactly the bytes a run to a fresh output file writes (the expected lines
\* of the records written), and has that length.
C1_InPlaceEqualsOutput ==
  (RunSucceeded /\ inPlacePtr) =>
    /\ fsIn = ExpectedOutput(InputRecords, written)
    /\ Len(fsIn) = Len(fsTmp)

\* C2: when an interrupt stopped the run, the output holds exactly the K
\* lines written, the count reported on the interrupt path is K, and the
\* exit status is 0.
C2_InterruptReportsWritten ==
  (Exited /\ reported >= 0 /\ stoppedAt = "stop") =>
    /\ OutputWritten = ExpectedOutput(InputRecords, written)
    /\ reported = written
    /\ exitCode = 0

\* C3: when processFile has read its input of N records to the end, it has
\* written exactly N lines, line i being the expected line of record i (the
\* header record unquoted, with -h, and only that one); they are the whole
\* output file when it was fresh or truncated, and the whole temp file.
C3_TransformsEveryRecord ==
  stoppedAt = "eof" =>
    /\ written = Len(InputRecords)
    /\ NumLines(OutputWritten) = Len(InputRecords)
    /\ OutputWritten = ExpectedOutput(InputRecords, Len(InputRecords))
    /\ (~inPlacePtr /\ FreshOutput => fsOut = ExpectedOutput(InputRecords, Len(InputRecords)))

\* C3 witness: a header and a second record were read to the end.
C3_Witness == stoppedAt = "eof" /\ headerPtr /\ written = 2 /\ Exited /\ exitCode = 0

\* The two shapes of -d the specification accepts.
AcceptedShape(d) == Len(d) = 1 \/ d = <<"\\", "t">>

\* C4: a -d value is accepted exactly when it is one character or the
\* literal backslash-t; a rejected value exits 1 with the run goroutine
\* never started and no file opened.
C4_DelimiterShapes ==
  /\ (delimiter # <<>> => AcceptedShape(rawDelimiterPtr))
  /\ (delimiter = <<"\t">> /\ Len(rawDelimiterPtr) = 2 => rawDelimiterPtr = <<"\\", "t">>)
  /\ (mpc \notin {"parse", "args", "delimiter"} /\ Len(args) \in {1, 2}
        /\ ~AcceptedShape(rawDelimiterPtr)
      => Exited /\ exitCode = 1 /\ rpc = "idle" /\ inFile.st = "nil" /\ outFile.st = "nil")

\* C5: the process never ends with a file handle opened and not closed.
C5_HandlesClosedAtExit ==
  Exited => inFile.st # "open" /\ outFile.st # "open"

\* A configuration error of the command line.
ConfigError ==
  \/ osArgs.parse = "err"
  \/ Len(osArgs.args) \notin {1, 2}
  \/ parseDelimiter(osArgs.d) = DelimError
  \/ Len(osArgs.c) > 1

\* C6: the exit status is 0 or 1; it is 1, with nothing run, on every
\* configuration error, and otherwise 0 exactly when the run's result is nil.
C6_ExitStatus ==
  (Exited /\ osArgs.parse # "help") =>
    /\ exitCode \in {0, 1}
    /\ (ConfigError => exitCode = 1 /\ rpc = "idle")
    /\ (exitCode = 0 <=> mainErr = "nil")

\* The input path with "_clean" inserted before the first "." of its last
\* element (appended when there is none), the directory part as it was.
ExpectedOutputPath(p) ==
  LET i == LastIndex(p, "/")
      dir == SubSeq(p, 1, i)
      base == Tail_(p, i + 1)
      j == Index(base, <<".">>)
      ins == <<"_", "c", "l", "e", "a", "n">>
  IN  dir \o (IF j = 0 THEN base \o ins ELSE SubSeq(base, 1, j - 1) \o ins \o Tail_(base, j))

\* C7: with no output path and -i off, the resolved output path is the
\* input path with "_clean" inserted before the first "." of the basename,
\* whatever the input path.
C7_DerivedOutputPath ==
  (inputFileBasename # <<>> /\ Len(args) = 1 /\ ~inPlacePtr) =>
    /\ exitCode # 2
    /\ outputFilepath = ExpectedOutputPath(inputFilepath)

\* What C8 says of every state.
CancellationInv ==
  /\ writtenAfterClose <= 1
  /\ (writtenAfterClose = 1 => rpc # "write")
  /\ (stoppedAt = "stop" =>
        /\ rpc \in {"seek", "truncate", "copy", "send", "close", "done"}
        /\ written = linesProcessed - 1
        /\ OutputWritten = ExpectedOutput(InputRecords, written)
        /\ rerr \notin {"read", "write"})

\* What C8 says of every step: a check made once stopChan is closed
\* returns nil from processFile and writes nothing, and no other step than
\* run's write of the record in flight changes the output.
CancellationStep ==
  /\ (rpc = "check" /\ stopClosed /\ rpc' # rpc =>
        rpc' = AfterProcessFile /\ rerr' = "nil" /\ OutputWritten' = OutputWritten)
  /\ (stopClosed /\ OutputWritten' # OutputWritten => rpc = "write")

\* C8: the stop is checked once per record, after the read and before the
\* write.  After close(stopChan) processFile writes at most one more line
\* (one whose check came before the close); a check that comes after the
\* close writes nothing and returns nil; a stopped run has left the loop
\* with only complete lines written and no read or write error.
C8_CancellationPerRecord == []CancellationInv /\ [][CancellationStep]_vars

\* C8 witness: one line was written after the close, then the run stopped
\* at the next record's check and the process exited 0.
C8_Witness == stoppedAt = "stop" /\ writtenAfterClose = 1 /\ Exited /\ exitCode = 0

\* What holds of the channels in every state.
ChannelsSafe ==
  /\ sent <= 1 /\ received <= 1 /\ closes <= 1 /\ Len(errChan) <= 1
  /\ (rpc = "send" => Len(errChan) = 0 /\ sent = 0)
  /\ (rpc \in {"close", "done"} => sent = 1)
  /\ (Exited /\ rpc # "idle" => received = 1)

\* C9: every path of run sends exactly one result and the send finds the
\* channel empty, main receives once, stopChan is closed at most once, and
\* under fair scheduling a started process exits.
C9_OneResultAndExit == []ChannelsSafe /\ [](mpc = "parse" => <>Exited)

\* C9 witness: main took the interrupt branch while the run's result was
\* already in errChan.
C9_Witness == mpc = "close" /\ Len(errChan) = 1 /\ sent = 1

\* C10: in in-place mode a run stopped by an interrupt still runs the
\* finalizer: on exit 0 the original file holds only the lines written to
\* the temp file, and it is untouched only if run failed before truncating.
C10_CancelledInPlace ==
  (Exited /\ inPlacePtr /\ stoppedAt = "stop") =>
    /\ (exitCode = 0 => fsIn = fsTmp /\ fsTmp = ExpectedOutput(InputRecords, written))
    /\ (fsIn = origIn /\ origIn # <<>> => mainErr \in {"seek", "truncate"})
====
